---- MODULE Spec2Model ----
(***************************************************************************)
(* sdwriter: write a disk image to an SD card, or verify the card against  *)
(* the image.  State machine of src/sdwriter.c: main, ask_device,          *)
(* write_image and the disk_* wrappers, with the C integer widths kept.    *)
(***************************************************************************)
EXTENDS Integers, Sequences, FiniteSets, TLC

(***************************************************************************)
(* Program constants.                                                      *)
(***************************************************************************)
BufSize == 32768            \* sizeof(buf), char buf[32*1024]
MAXDEV == 9                 \* #define MAXDEV 9
MarkLimit == 64             \* progress_len / progress_step < 64
IntMax == 2147483647        \* INT_MAX: progress_len and progress_step are int

(***************************************************************************)
(* Bounds of the model.                                                    *)
(***************************************************************************)
MaxChunks == 2              \* small images have 0..MaxChunks whole chunks
MaxFaultChunk == 2          \* I/O faults are injected in chunks 0..MaxFaultChunk-1
MaxRuns == 2                \* processes run one after another on the same card
MaxFollowed == 65           \* chunks followed of a job on an image of 2^31 chunks
MaxCards == 11              \* devices of the longest list of the operating system

(***************************************************************************)
(* 64-bit quantities (off_t, unsigned long long: file sizes and offsets).  *)
(* TLC's integers have 32 bits, so a 64-bit value x is held here as the    *)
(* pair [q, r] with x = q * BufSize + r and 0 <= r < BufSize.  Sizes of    *)
(* the model stay below 2^46 bytes (q <= IntMax).                          *)
(***************************************************************************)
W(q0, r0) == [q |-> q0, r |-> r0]

WZero == W(0, 0)

\* The 64-bit value of a small non-negative integer.
WOf(x) == W(x \div BufSize, x % BufSize)

\* The integer of a 64-bit value known to be small.
WInt(a) == a.q * BufSize + a.r

WAdd(a, b) == W(a.q + b.q + (a.r + b.r) \div BufSize, (a.r + b.r) % BufSize)

\* a - b for a >= b.
WSub(a, b) ==
    IF a.r >= b.r THEN W(a.q - b.q, a.r - b.r)
    ELSE W(a.q - b.q - 1, a.r - b.r + BufSize)

WLt(a, b) == a.q < b.q \/ (a.q = b.q /\ a.r < b.r)

WLe(a, b) == a = b \/ WLt(a, b)

WMin(a, b) == IF WLt(a, b) THEN a ELSE b

\* 2^32 bytes, in chunks of BufSize; 2^31 bytes likewise.
ChunksPer4G == 2^17
ChunksPer2G == 2^16

(***************************************************************************)
(* C integer conversions.                                                  *)
(***************************************************************************)
\* Conversion of a 64-bit value to int: the low 32 bits, two's complement.
ToInt(a) ==
    LET mq == a.q % ChunksPer4G
    IN  IF mq >= ChunksPer2G THEN (mq - ChunksPer4G) * BufSize + a.r
        ELSE mq * BufSize + a.r

\* "x > sizeof(buf)" for an int x: x is converted to size_t, so a negative x
\* becomes 2^64 + x, which is above every buffer size.
GtSizeof(x, size) == x < 0 \/ x > size

\* C integer division (b > 0) truncates toward zero: for a < 0 the quotient is
\* rounded up.
CDiv(a, b) == IF a >= 0 THEN a \div b ELSE (a + b - 1) \div b

(***************************************************************************)
(* Byte arrays (the image file, the card, the buffers) are held run-length *)
(* encoded: a sequence of runs [len, val], len a 64-bit length, normalised *)
(* so that equal arrays have equal encodings.                              *)
(***************************************************************************)
Run(l, v) == [len |-> l, val |-> v]

\* Op of the value of v (of v and w), the value computed once.
Bind(v, Op(_)) == CHOOSE r \in {Op(x) : x \in {v}} : TRUE
Bind2(v, w, Op(_, _)) == CHOOSE r \in {Op(x, y) : x \in {v}, y \in {w}} : TRUE

RECURSIVE Norm(_)
Norm(s0) ==
    Bind(s0, LAMBDA s :
        IF s = <<>> THEN <<>>
        ELSE IF Head(s).len = WZero THEN Norm(Tail(s))
        ELSE Bind(Norm(Tail(s)), LAMBDA t :
                 IF t # <<>> /\ Head(t).val = Head(s).val
                 THEN <<Run(WAdd(Head(s).len, Head(t).len), Head(s).val)>> \o Tail(t)
                 ELSE <<Head(s)>> \o t))

RECURSIVE Size(_)
Size(s0) ==
    Bind(s0, LAMBDA s :
        IF s = <<>> THEN WZero ELSE WAdd(Head(s).len, Size(Tail(s))))

\* The first k bytes.
RECURSIVE Take(_, _)
Take(s0, k0) ==
    Bind2(s0, k0, LAMBDA s, k :
        IF k = WZero \/ s = <<>> THEN <<>>
        ELSE IF WLe(Head(s).len, k)
             THEN <<Head(s)>> \o Take(Tail(s), WSub(k, Head(s).len))
             ELSE <<Run(k, Head(s).val)>>)

\* All but the first k bytes.
RECURSIVE Drop(_, _)
Drop(s0, k0) ==
    Bind2(s0, k0, LAMBDA s, k :
        IF k = WZero \/ s = <<>> THEN s
        ELSE IF WLe(Head(s).len, k) THEN Drop(Tail(s), WSub(k, Head(s).len))
             ELSE <<Run(WSub(Head(s).len, k), Head(s).val)>> \o Tail(s))

\* The byte at offset k < Size(s).
ByteAt(s, k) == Head(Drop(s, k)).val

\* The cnt bytes at offset off (fewer at the end of the array).
Bytes(s, off, cnt) == Norm(Take(Drop(s, off), cnt))

\* The array with the bytes d stored at offset off.
Store(s0, off0, d0) ==
    Bind2(s0, off0, LAMBDA s, off :
        Bind(d0, LAMBDA d :
            Norm(Take(s, off) \o d \o Drop(s, WAdd(off, Size(d))))))

Uniform(l, v) == Norm(<<Run(l, v)>>)

\* An array of l bytes v, except byte w at offset k < l.
Marked(l, v, k, w) ==
    Norm(<<Run(k, v), Run(W(0, 1), w), Run(WSub(WSub(l, k), W(0, 1)), v)>>)

\* Index of the first of the leading cnt bytes in which a and b differ, -1 when
\* they are equal there (the loop of print_mismatch, taken a run at a time).
RECURSIVE FirstDiff(_, _, _)
FirstDiff(a0, b0, cnt0) ==
    Bind2(a0, b0, LAMBDA a, b :
        Bind(cnt0, LAMBDA cnt :
            IF cnt = WZero \/ a = <<>> \/ b = <<>> THEN -1
            ELSE IF Head(a).val # Head(b).val THEN 0
            ELSE Bind(WMin(WMin(Head(a).len, Head(b).len), cnt), LAMBDA k :
                     Bind(FirstDiff(Drop(a, k), Drop(b, k), WSub(cnt, k)), LAMBDA d :
                         IF d = -1 THEN -1 ELSE WInt(k) + d))))

(***************************************************************************)
(* Pure computations of the code.                                          *)
(***************************************************************************)
\* A quit that hands its argument to exit: exit(ok).
ExitStatus_Arg(ok) == ok

\* quit(ok): exit(ok ? 0 : -1); the status the parent sees is the low 8 bits.
ExitStatus(ok) == IF ok # 0 THEN 0 ELSE (-1) % 256

\* progress_len = (nbytes + sizeof(buf) - 1) / sizeof(buf): the quotient, of 64
\* bits, is converted to int, so that 2^31 chunks become -2^31.
TotalChunks(nb) ==
    IF nb.r = 0 THEN nb.q
    ELSE IF nb.q = IntMax THEN -IntMax - 1
    ELSE nb.q + 1

\* for (progress_step=1; ; progress_step<<=1)
\*     if (progress_len / progress_step < 64) break;
RECURSIVE StepFrom(_, _)
StepFrom(len, step) ==
    IF CDiv(len, step) < MarkLimit THEN step ELSE StepFrom(len, step * 2)

ProgressStep(nb) == StepFrom(TotalChunks(nb), 1)

\* progress_len += progress_step - 1; progress_len /= progress_step;
ProgressLen(nb) ==
    CDiv(TotalChunks(nb) + ProgressStep(nb) - 1, ProgressStep(nb))

\* A progress that never reports a mark.
ProgressHit_Never(cnt, step) == FALSE

\* A progress that tests the counter before it is incremented.
ProgressHit_Before(cnt, step) == (cnt - 1) % step = 0

\* progress(): after ++progress_count, progress_count % step == 0.
ProgressHit(cnt, step) == cnt % step = 0

\* n = nbytes - count; if (n > sizeof(buf)) n = sizeof(buf);   (n is an int)
ChunkLen(nb, cnt) ==
    LET x == ToInt(WSub(nb, cnt))
    IN  IF GtSizeof(x, BufSize) THEN BufSize ELSE x

\* A loop test that lets count reach nbytes: count <= nbytes.
LoopTest_Le(cnt, nb) == WLe(cnt, nb)

\* count < nbytes, the test of both loops.
LoopTest(cnt, nb) == WLt(cnt, nb)

\* read()/write() != n on the POSIX branch; on MINGW32 only the BOOL that
\* ReadFile/WriteFile return is tested, the byte count is ignored.
TransferFailed(plat, res, nreq) ==
    IF plat = "mingw32" THEN res < 0 ELSE res # nreq

(***************************************************************************)
(* The offset as print_mismatch prints it: "%X" of the low half when the   *)
(* high half is 0, else "%X%08X" of the high and the low half.  A text is  *)
(* a sequence of characters.                                               *)
(***************************************************************************)
HexChars == <<"0", "1", "2", "3", "4", "5", "6", "7",
              "8", "9", "A", "B", "C", "D", "E", "F">>

\* (unsigned) (offset >> 32) and (unsigned) (offset & 0xffffffff), each as a
\* 64-bit value below 2^32.
HighHalf(x) == W(0, x.q \div ChunksPer4G)
LowHalf(x) == W(x.q % ChunksPer4G, x.r)

\* Hexadecimal digit k (0: the lowest) of a value v below 2^32: bits 4k..4k+3,
\* of which bits 0..14 are v.r and bits 15..31 are v.q.
HexDigit(v, k) ==
    IF k < 3 THEN (v.r \div 16^k) % 16
    ELSE IF k = 3 THEN v.r \div 4096 + 8 * (v.q % 2)
    ELSE (v.q \div 2^(4 * k - 15)) % 16

\* The digits "%X" prints: down from the highest digit that is not 0.
Significant(v) ==
    IF v = WZero THEN 1
    ELSE 1 + CHOOSE k \in 0..7 :
                 HexDigit(v, k) # 0 /\ \A j \in (k + 1)..7 : HexDigit(v, j) = 0

\* printf with a minimum field width, padded with zeros to the left.
FormatHex(v, width) ==
    LET m == IF Significant(v) > width THEN Significant(v) ELSE width
    IN  [i \in 1..m |-> HexChars[HexDigit(v, m - i) + 1]]

\* "%X"
FormatX(v) == FormatHex(v, 1)

\* A low half printed with "%X": the padding left out.
Format08X_Unpadded(v) == FormatHex(v, 1)

\* "%08X"
Format08X(v) == FormatHex(v, 8)

\* if ((offset >> 32) == 0) printf("%X", low); else printf("%X%08X", high, low);
RenderOffset(x) ==
    IF HighHalf(x) = WZero THEN FormatX(LowHalf(x))
    ELSE FormatX(HighHalf(x)) \o Format08X(LowHalf(x))

(***************************************************************************)
(* Device enumeration (get_devices).  An entry of the operating system's   *)
(* device list: [path, whole, usb, removable, size, props]: the device     *)
(* node; a whole disk or a partition (a volume); attached by USB; marked   *)
(* removable; size in 512-byte blocks (0: no medium); whether the name,    *)
(* vendor, product and geometry of the device can be queried.              *)
(***************************************************************************)
\* udev_device_get_sysattr_value(dev, "removable"): sysfs gives the attribute
\* to disks only, not to partitions.
SysAttrRemovable(d) ==
    IF ~d.whole THEN "none" ELSE IF d.removable THEN "1" ELSE "0"

\* The tests an entry passes to be stored, on each platform.
\*   linux:   usb parent, removable == '1', size != 0.
\*   apple:   the matching dictionary (Removable, Whole), then the BSD name,
\*            the size, the characteristics, vendor and product are there.
\*   mingw32: DRIVE_REMOVABLE, the drive is accessible (a medium is in),
\*            BusTypeUsb, device number and geometry are there.
Eligible(plat, d) ==
    CASE plat = "linux" -> d.usb /\ SysAttrRemovable(d) = "1" /\ d.size # 0
      [] plat = "apple" -> d.removable /\ d.whole /\ d.props
      [] OTHER -> d.removable /\ d.size # 0 /\ d.usb /\ d.props

\* The loop over the enumerated entries, from table tab on: every eligible
\* entry is stored at devtab[ndev++].  Only the udev loop tests
\* ndev >= maxdev.
RECURSIVE ScanDevices(_, _, _, _)
ScanDevices(plat, os, tab, maxdev) ==
    IF os = <<>> \/ (plat = "linux" /\ Len(tab) >= maxdev) THEN tab
    ELSE ScanDevices(plat, Tail(os),
                     IF Eligible(plat, Head(os)) THEN Append(tab, Head(os).path)
                     ELSE tab,
                     maxdev)

\* What a call of get_devices did: the entries it stored from devtab[0] on,
\* whether it stored the terminator devtab[ndev] = 0, and how it ended.
Enumeration(t, z, e) == [tab |-> t, terminated |-> z, end |-> e]

NotCalled == Enumeration(<<>>, FALSE, "none")

\* get_devices(devtab, maxdev); ok: the discovery can be set up (udev_new() on
\* linux; IOServiceMatching and IOServiceGetMatchingServices on apple).
\* Without it the linux branch calls quit(0) and the apple branch returns
\* before devtab[ndev] = 0.
get_devices(plat, ok, os, maxdev) ==
    IF plat = "linux" /\ ~ok THEN Enumeration(<<>>, FALSE, "quit")
    ELSE IF plat = "apple" /\ ~ok THEN Enumeration(<<>>, FALSE, "return")
    ELSE Enumeration(ScanDevices(plat, os, <<>>, maxdev), TRUE, "return")

\* The caller's table has maxdev + 1 slots, none of them initialized.  What
\* it reads there after get_devices returned r: the entries stored, when the
\* terminator was stored too; otherwise slot 0 is indeterminate (null, or
\* not).
Views(r) == IF r.terminated THEN {r.tab} ELSE {<<>>, <<"?">>}

\* The call left the caller's table unterminated or wrote beyond its last
\* slot, devtab[maxdev]: the behaviour is undefined, and the process may be
\* killed.
Damaged(r, maxdev) == ~r.terminated \/ Len(r.tab) > maxdev

(***************************************************************************)
(* State.                                                                  *)
(***************************************************************************)
VARIABLES
    platform,       \* build: "linux", "apple" or "mingw32"
    cli,            \* what the command line asks for
    discovery_ok,   \* whether the discovery of devices can be set up
    oslist,         \* the block devices the operating system reports
    image,          \* contents of the source file
    disk,           \* contents of the card
    disk0,          \* contents of the card when the process started
    run,            \* number of the process (1, 2, ...)
    pc,             \* position of the process in the code
    verify_only,    \* global verify_only
    device_name,    \* global device_name ("" for NULL)
    devices,        \* the table of ask_device or usage, as the caller reads it
    devtab,         \* what get_devices did to the table in this process
    reply,          \* first character of the reply read last (0: none yet)
    progress_count, \* global progress_count
    nbytes, count, n, progress_len, progress_step,   \* locals of write_image
    buf, buf2,      \* locals of write_image
    src_pos,        \* file offset of the source descriptor
    dest_pos,       \* file offset of the device descriptor
    dest_open,      \* disk_open returned a handle in this process
    status,         \* exit status of the process, once pc = "exited"
    exit_at,        \* the call that ended the process
    report,         \* <<>> or <<the mismatch print_mismatch printed>>
    io              \* counts of the calls issued, for the properties

vars == <<platform, cli, discovery_ok, oslist, image, disk, disk0, run, pc,
          verify_only, device_name, devices, devtab, reply, progress_count, nbytes,
          count, n, progress_len, progress_step, buf, buf2, src_pos, dest_pos,
          dest_open, status, exit_at, report, io>>

envVars == <<platform, cli, discovery_ok, oslist, image, run, disk0>>
jobVars == <<nbytes, count, n, progress_len, progress_step, progress_count>>
bufVars == <<buf, buf2>>
posVars == <<src_pos, dest_pos>>
selVars == <<verify_only, device_name, devices, devtab, reply>>

IoZero == [src_reads |-> 0, writes |-> 0, dev_reads |-> 0, flushes |-> 0,
           final_flushes |-> 0, closes |-> 0, marks |-> 0, faults |-> 0,
           flush_after |-> {}, prior_faults |-> 0]

Bump(f) == [io EXCEPT ![f] = @ + 1]

\* A count of bytes as a 64-bit value (nothing for a failed call's -1).
Moved(res) == IF res > 0 THEN WOf(res) ELSE WZero

(***************************************************************************)
(* Inputs.                                                                 *)
(***************************************************************************)
OneByte == W(0, 1)
OneChunk == W(1, 0)

SmallSizes == {W(c, r) : c \in 0..MaxChunks, r \in {0, 1, BufSize - 1}}

\* 127 chunks; 10,485,760 bytes (320 chunks).
MidSizes == {W(127, 0), W(320, 0)}

\* 2^32 + 5 bytes.
LargeSizes == {W(ChunksPer4G, 5)}

\* 2^46 - 32767 bytes: 2^31 chunks.
HugeSizes == {W(IntMax, 1)}

LastByte(size) == WSub(size, OneByte)

\* Offsets at which an image or a card is given a distinguished byte: the
\* ends of the first chunk, the start of the last chunk, the last byte.
Probes(size) ==
    {k \in {WZero, W(0, BufSize - 1), OneChunk, W(size.q, 0)} : WLt(k, size)}
    \cup (IF size = WZero THEN {} ELSE {LastByte(size)})

SmallImages ==
    UNION {{Uniform(sz, 1)} \cup {Marked(sz, 1, k, 2) : k \in Probes(sz)}
           : sz \in SmallSizes}

MidImages == {Marked(sz, 1, LastByte(sz), 2) : sz \in MidSizes}

LargeImages == {Marked(sz, 1, LastByte(sz), 2) : sz \in LargeSizes}

HugeImages == {Uniform(sz, 1) : sz \in HugeSizes}

\* A blank card with room for the image and one chunk more.
BlankCard(img) == Uniform(WAdd(Size(img), OneChunk), 0)

\* A card that holds the image.
GoodCard(img) == Store(BlankCard(img), WZero, img)

\* Cards that differ from the image in exactly one byte, at offset k.
BadCard(img, k) == Store(GoodCard(img), k, Uniform(OneByte, 3))

BadCards(img) == {BadCard(img, k) : k \in Probes(Size(img))}

Platforms == {"linux", "apple", "mingw32"}

NoDevices == <<>>
Card == [path |-> "sdb", whole |-> TRUE, usb |-> TRUE, removable |-> TRUE,
         size |-> 15000000, props |-> TRUE]
EmptyReader == [Card EXCEPT !.path = "sdc", !.size = 0]
FixedDisk == [path |-> "sda", whole |-> TRUE, usb |-> FALSE, removable |-> FALSE,
              size |-> 976000000, props |-> TRUE]
\* A partition of the card; a disc in a SATA drive; a card whose reader does
\* not answer the queries.
Partition == [Card EXCEPT !.path = "sdb1", !.whole = FALSE]
Disc == [Card EXCEPT !.path = "sr0", !.usb = FALSE]
Mute == [Card EXCEPT !.path = "sde", !.props = FALSE]

\* k cards, one after another.
Cards(k) == [i \in 1..k |-> [Card EXCEPT !.path = ToString(i)]]

OsLists == {NoDevices, <<Card>>, <<FixedDisk, EmptyReader, Card>>,
            <<Card, FixedDisk, [Card EXCEPT !.path = "sdd"]>>,
            <<Card, Partition, Disc, Mute>>}
           \cup {Cards(k) : k \in MAXDEV..MaxCards}

\* First characters of a reply to the prompt; -1 is end of input.
\* '0' '1' '2' '3' ':' 'Q' 'q' 'x'
Replies == {-1, 48, 49, 50, 51, 58, 81, 113, 120}

Scenario(p, c, u, o, v, im, cd) ==
    [plat |-> p, cli |-> c, udev |-> u, os |-> o, verify |-> v, img |-> im,
     card |-> cd]

\* Scenarios of write_image: the device is named with -d.  Writing to a blank
\* card, verifying a card that holds the image, verifying a card that differs
\* from the image in one byte.
JobScenarios ==
    {Scenario(p, "run_d", TRUE, NoDevices, 0, im, BlankCard(im)) :
        p \in Platforms, im \in SmallImages \cup MidImages}
    \cup
    {Scenario(p, "run_d", TRUE, NoDevices, 1, im, GoodCard(im)) :
        p \in Platforms, im \in SmallImages \cup MidImages}
    \cup
    UNION {{Scenario(p, "run_d", TRUE, NoDevices, 1, im, cd) :
               p \in Platforms, cd \in BadCards(im)} : im \in SmallImages}

\* Scenarios of the command line and of the selection of the device.
CliScenarios ==
    {Scenario(p, c, u, o, v, Uniform(W(0, 3), 1), BlankCard(Uniform(W(0, 3), 1))) :
        p \in Platforms, c \in {"help", "version", "badopt", "nofile", "run"},
        u \in BOOLEAN, o \in OsLists, v \in {0, 1}}

\* A write of an image of 4 GiB and more.
LargeScenarios ==
    {Scenario("linux", "run_d", TRUE, NoDevices, 0, im, BlankCard(im)) :
        im \in LargeImages}

\* A write of an image of 2^31 chunks, to a card of 4 GiB.
HugeScenarios ==
    {Scenario("linux", "run_d", TRUE, NoDevices, 0, im,
              Uniform(W(ChunksPer4G, 0), 0)) : im \in HugeImages}

\* The state of a process that main has just entered, options not yet parsed.
Fresh(v, dev) ==
    /\ pc = "main"
    /\ verify_only = v
    /\ device_name = dev
    /\ devices = <<>>
    /\ devtab = NotCalled
    /\ reply = 0
    /\ progress_count = 0
    /\ nbytes = WZero /\ count = WZero /\ n = 0
    /\ progress_len = 0 /\ progress_step = 0
    /\ buf = Uniform(OneChunk, 0) /\ buf2 = Uniform(OneChunk, 0)
    /\ src_pos = WZero /\ dest_pos = WZero
    /\ dest_open = FALSE
    /\ status = 0 /\ exit_at = "running"
    /\ report = <<>>
    /\ io = IoZero

InitOf(sc) ==
    /\ platform = sc.plat
    /\ cli = sc.cli
    /\ discovery_ok = sc.udev
    /\ oslist = sc.os
    /\ image = sc.img
    /\ disk = sc.card
    /\ disk0 = sc.card
    /\ run = 1
    /\ Fresh(sc.verify, IF sc.cli = "run_d" THEN "sdb" ELSE "")

Init == \E sc \in JobScenarios \cup CliScenarios : InitOf(sc)

InitLarge == \E sc \in JobScenarios \cup CliScenarios \cup LargeScenarios : InitOf(sc)

InitHuge == \E sc \in JobScenarios \cup CliScenarios \cup HugeScenarios : InitOf(sc)

(***************************************************************************)
(* quit(ok): the process ends, at the call named by site.                  *)
(***************************************************************************)
quit(ok, site) ==
    /\ pc' = "exited"
    /\ status' = ExitStatus(ok)
    /\ exit_at' = site

\* Asynchronous events (signals, injected I/O faults) are drawn in the first
\* MaxFaultChunk chunks of a job and outside its loops.
EventWindow == count.q < MaxFaultChunk \/ ~LoopTest(count, nbytes)

\* interrupted(signum): the handler of SIGINT, SIGHUP, SIGTERM.
interrupted ==
    /\ pc # "exited"
    /\ EventWindow
    /\ quit(0, "interrupted")
    /\ UNCHANGED <<envVars, jobVars, bufVars, posVars, selVars, disk, dest_open,
                   report, io>>

(***************************************************************************)
(* main, usage, ask_device.                                                *)
(***************************************************************************)
\* The getopt loop and the test of argc.
main ==
    /\ pc = "main"
    /\ \/ /\ cli = "version"                    \* case 'V': return 0
          /\ pc' = "exited" /\ status' = 0 /\ exit_at' = "version"
       \/ /\ cli \in {"help", "badopt", "nofile"}
          /\ pc' = "usage" /\ UNCHANGED <<status, exit_at>>
       \/ /\ cli = "run"                        \* no -d: device_name is NULL
          /\ pc' = "ask_device" /\ UNCHANGED <<status, exit_at>>
       \/ /\ cli = "run_d"
          /\ pc' = "write_image" /\ UNCHANGED <<status, exit_at>>
    /\ UNCHANGED <<envVars, jobVars, bufVars, posVars, selVars, disk, dest_open,
                   report, io>>

\* The process is killed (SIGSEGV) on a wild access.
crash ==
    /\ pc' = "exited"
    /\ status' = 139
    /\ exit_at' = "crash"

\* usage(): get_devices, the devices are printed, then exit(0).
usage ==
    /\ pc = "usage"
    /\ LET r == get_devices(platform, discovery_ok, oslist, MAXDEV) IN
       /\ devtab' = r
       /\ IF r.end = "quit"
          THEN quit(0, "udev") /\ UNCHANGED devices
          ELSE \/ Damaged(r, MAXDEV) /\ crash /\ UNCHANGED devices
               \/ /\ devices' \in Views(r)
                  /\ pc' = "exited" /\ status' = 0 /\ exit_at' = "usage"
    /\ UNCHANGED <<envVars, jobVars, bufVars, posVars, verify_only, device_name,
                   reply, disk, dest_open, report, io>>

\* ask_device(): get_devices, and quit(0) when devices[0] is null.
ask_device ==
    /\ pc = "ask_device"
    /\ LET r == get_devices(platform, discovery_ok, oslist, MAXDEV) IN
       /\ devtab' = r
       /\ IF r.end = "quit"
          THEN quit(0, "udev") /\ UNCHANGED devices
          ELSE \/ Damaged(r, MAXDEV) /\ crash /\ UNCHANGED devices
               \/ /\ devices' \in Views(r)
                  /\ IF devices' = <<>>
                     THEN quit(0, "no_devices")
                     ELSE pc' = "ask_reply" /\ UNCHANGED <<status, exit_at>>
    /\ UNCHANGED <<envVars, jobVars, bufVars, posVars, verify_only, device_name,
                   reply, disk, dest_open, report, io>>

\* A reply c selects a device: *reply >= '1' && *reply < '1'+ndev.
Selects(c, ndev) == c >= 49 /\ c < 49 + ndev

\* One turn of the prompt loop on the first character of the reply.
ask_reply ==
    /\ pc = "ask_reply"
    /\ \E c \in Replies :
          /\ reply' = c
          /\ IF c = -1 THEN                        \* fgets returns NULL
                 quit(0, "ask_eof") /\ UNCHANGED device_name
             ELSE IF c = 113 \/ c = 81 THEN        \* 'q', 'Q'
                 quit(0, "ask_cancel") /\ UNCHANGED device_name
             ELSE IF Selects(c, Len(devices)) THEN
                 /\ device_name' = devices[c - 49 + 1]
                 /\ pc' = "write_image"
                 /\ UNCHANGED <<status, exit_at>>
             ELSE UNCHANGED <<pc, status, exit_at, device_name>>
    /\ UNCHANGED <<envVars, jobVars, bufVars, posVars, verify_only, devices,
                   devtab, disk, dest_open, report, io>>

(***************************************************************************)
(* The operating system's answers to read and write.                       *)
(***************************************************************************)
\* What a transfer of nreq bytes may return when avail bytes remain: the
\* bytes there are, and, as an injected fault, an error (-1) or a short count.
Results(nreq, avail) ==
    {IF WLt(avail, WOf(nreq)) THEN WInt(avail) ELSE nreq}
    \cup (IF EventWindow /\ io.faults = 0
          THEN {-1} \cup (IF nreq > 0 THEN {nreq \div 2} ELSE {})
          ELSE {})

Avail(file, pos) == IF WLt(pos, Size(file)) THEN WSub(Size(file), pos) ELSE WZero

\* The counters after a transfer of nreq bytes that returned res.
Counted(f, res, nreq) ==
    [io EXCEPT ![f] = @ + 1, !.faults = IF res # nreq THEN @ + 1 ELSE @]

(***************************************************************************)
(* write_image.                                                            *)
(***************************************************************************)
\* src = open(filename, O_RDONLY | O_BINARY); quit(0) when it fails.
open_source ==
    /\ pc = "write_image"
    /\ \/ quit(0, "open_source")
       \/ pc' = "disk_open" /\ UNCHANGED <<status, exit_at>>
    /\ UNCHANGED <<envVars, jobVars, bufVars, posVars, selVars, disk, dest_open,
                   report, io>>

\* dest = disk_open(device_name); quit(0) when the device cannot be opened.
disk_open ==
    /\ pc = "disk_open"
    /\ \/ quit(0, "disk_open") /\ UNCHANGED dest_open
       \/ dest_open' = TRUE /\ pc' = "setup" /\ UNCHANGED <<status, exit_at>>
    /\ UNCHANGED <<envVars, jobVars, bufVars, posVars, selVars, disk, report, io>>

\* Where a loop goes after count has been set to cnt.
LoopPc(cnt, nb, body, after) == IF LoopTest(cnt, nb) THEN body ELSE after

\* A write_image that enters the write loop whatever verify_only is.
BodyPc_Write == "w_read"

BodyPc == IF verify_only = 0 THEN "w_read" ELSE "v_read"

\* A write_image whose final flush is not kept to the write mode.
AfterPc_Flush == "w_final"

AfterPc == IF verify_only = 0 THEN "w_final" ELSE "close"

\* fstat, the length of the progress indicator, progress_count = 0, count = 0.
setup ==
    /\ pc = "setup"
    /\ nbytes' = Size(image)
    /\ progress_step' = ProgressStep(nbytes')
    /\ progress_len' = ProgressLen(nbytes')
    /\ progress_count' = 0
    /\ count' = WZero
    /\ pc' = LoopPc(count', nbytes', BodyPc, AfterPc)
    /\ UNCHANGED <<envVars, n, bufVars, posVars, selVars, disk, dest_open,
                   status, exit_at, report, io>>

\* A job on an image of 2^31 chunks is followed through MaxFollowed chunks.
Followed == nbytes.q < IntMax \/ count.q < MaxFollowed

\* n = nbytes - count, clamped; read(src, buf, n) != n ends the process.
read_source(here, next) ==
    /\ pc = here
    /\ Followed
    /\ n' = ChunkLen(nbytes, count)
    /\ \E res \in Results(n', Avail(image, src_pos)) :
          /\ buf' = Store(buf, WZero, Bytes(image, src_pos, Moved(res)))
          /\ src_pos' = WAdd(src_pos, Moved(res))
          /\ io' = Counted("src_reads", res, n')
          /\ IF res # n'
             THEN quit(0, "read_source")
             ELSE pc' = next /\ UNCHANGED <<status, exit_at>>
    /\ UNCHANGED <<envVars, nbytes, count, progress_len, progress_step,
                   progress_count, buf2, dest_pos, selVars, disk, dest_open, report>>

w_read == read_source("w_read", "w_write")

\* disk_write(dest, buf, n); then if (progress(progress_step)) the flush comes
\* next, else count += sizeof(buf) and the loop is tested.
disk_write ==
    /\ pc = "w_write"
    /\ \E res \in Results(n, Avail(disk, dest_pos)) :
          /\ disk' = Store(disk, dest_pos, Bytes(buf, WZero, Moved(res)))
          /\ dest_pos' = WAdd(dest_pos, Moved(res))
          /\ IF TransferFailed(platform, res, n)
             THEN /\ quit(0, "disk_write")
                  /\ io' = Counted("writes", res, n)
                  /\ UNCHANGED <<progress_count, count>>
             ELSE /\ progress_count' = progress_count + 1
                  /\ UNCHANGED <<status, exit_at>>
                  /\ IF ProgressHit(progress_count', progress_step)
                     THEN /\ io' = [Counted("writes", res, n) EXCEPT !.marks = @ + 1]
                          /\ pc' = "w_flush"
                          /\ UNCHANGED count
                     ELSE /\ io' = Counted("writes", res, n)
                          /\ count' = WAdd(count, WOf(BufSize))
                          /\ pc' = LoopPc(count', nbytes, BodyPc, AfterPc)
    /\ UNCHANGED <<envVars, nbytes, n, progress_len, progress_step, bufVars,
                   src_pos, selVars, dest_open, report>>

\* disk_flush(dest) on the cadence, then count += sizeof(buf).
w_flush ==
    /\ pc = "w_flush"
    /\ io' = [io EXCEPT !.flushes = @ + 1,
                        !.flush_after = @ \cup {io.writes}]
    /\ count' = WAdd(count, WOf(BufSize))
    /\ pc' = LoopPc(count', nbytes, BodyPc, AfterPc)
    /\ UNCHANGED <<envVars, nbytes, n, progress_len, progress_step,
                   progress_count, bufVars, posVars, selVars, disk, dest_open,
                   status, exit_at, report>>

\* The disk_flush(dest) after the loop of the write mode.
w_final ==
    /\ pc = "w_final"
    /\ io' = Bump("final_flushes")
    /\ pc' = "close"
    /\ UNCHANGED <<envVars, jobVars, bufVars, posVars, selVars, disk, dest_open,
                   status, exit_at, report>>

v_read == read_source("v_read", "v_dread")

\* disk_read(dest, buf, n): the card's bytes go into buf, over the source's.
disk_read ==
    /\ pc = "v_dread"
    /\ \E res \in Results(n, Avail(disk, dest_pos)) :
          /\ buf' = Store(buf, WZero, Bytes(disk, dest_pos, Moved(res)))
          /\ dest_pos' = WAdd(dest_pos, Moved(res))
          /\ io' = Counted("dev_reads", res, n)
          /\ IF TransferFailed(platform, res, n)
             THEN quit(0, "disk_read")
             ELSE pc' = "v_compare" /\ UNCHANGED <<status, exit_at>>
    /\ UNCHANGED <<envVars, jobVars, buf2, src_pos, selVars, disk, dest_open, report>>

\* buf2 is never written: its bytes are indeterminate.  The contents drawn:
\* equal to buf, all 0, all 1, and buf with its first or cnt-th byte changed.
Indeterminate(b, cnt) ==
    {b, Uniform(OneChunk, 0), Uniform(OneChunk, 1)}
    \cup {Store(b, WOf(j), Uniform(OneByte, 9)) : j \in {0, cnt - 1} \cap 0..(cnt - 1)}

\* A print_mismatch that reports the start of the chunk: offset += i left out.
print_mismatch_ChunkStart(valid, invalid, cnt, offset0) ==
    [offset |-> offset0,
     text |-> RenderOffset(offset0),
     expected |-> ByteAt(valid, WZero),
     actual |-> ByteAt(invalid, WZero)]

\* print_mismatch(valid, invalid, nbytes, offset): the first i with
\* invalid[i] != valid[i]; offset += i is printed after "Error at address 0x",
\* "file=" is valid[i], "disk=" is invalid[i].
print_mismatch(valid, invalid, cnt, offset0) ==
    LET i == FirstDiff(valid, invalid, WOf(cnt))
    IN  [offset |-> WAdd(offset0, WOf(i)),
         text |-> RenderOffset(WAdd(offset0, WOf(i))),
         expected |-> ByteAt(valid, WOf(i)),
         actual |-> ByteAt(invalid, WOf(i))]

\* memcmp(buf, buf2, n) != 0 leads to print_mismatch(buf, buf2, n, ...), which
\* ends the process; otherwise progress(progress_step) and count += sizeof(buf).
v_compare ==
    /\ pc = "v_compare"
    /\ \E g \in Indeterminate(buf, n) :
          /\ buf2' = g
          /\ LET i == FirstDiff(buf, g, WOf(n)) IN
             IF i # -1
             THEN /\ report' = <<print_mismatch(buf, g, n, WSub(src_pos, WOf(n)))>>
                  /\ quit(0, "mismatch")
                  /\ UNCHANGED <<progress_count, count, io>>
             ELSE /\ progress_count' = progress_count + 1
                  /\ io' = IF ProgressHit(progress_count', progress_step)
                           THEN Bump("marks") ELSE io
                  /\ count' = WAdd(count, WOf(BufSize))
                  /\ pc' = LoopPc(count', nbytes, BodyPc, AfterPc)
                  /\ UNCHANGED <<status, exit_at, report>>
    /\ UNCHANGED <<envVars, nbytes, n, progress_len, progress_step, buf,
                   posVars, selVars, disk, dest_open>>

\* close(src); disk_close(dest); the speed is printed and write_image returns.
close ==
    /\ pc = "close"
    /\ io' = Bump("closes")
    /\ pc' = "returned"
    /\ UNCHANGED <<envVars, jobVars, bufVars, posVars, selVars, disk, dest_open,
                   status, exit_at, report>>

\* quit(1) at the end of main.
main_end ==
    /\ pc = "returned"
    /\ quit(1, "done")
    /\ UNCHANGED <<envVars, jobVars, bufVars, posVars, selVars, disk, dest_open,
                   report, io>>

\* The operator runs the program again on the same card, with -v and the same
\* image, after a write that completed (small images).
verify_again ==
    /\ pc = "exited" /\ exit_at = "done"
    /\ verify_only = 0 /\ cli = "run_d"
    /\ run < MaxRuns
    /\ nbytes.q <= MaxChunks
    /\ run' = run + 1
    /\ disk0' = disk
    /\ pc' = "main"
    /\ verify_only' = 1
    /\ progress_count' = 0
    /\ nbytes' = WZero /\ count' = WZero /\ n' = 0
    /\ progress_len' = 0 /\ progress_step' = 0
    /\ buf' = Uniform(OneChunk, 0) /\ buf2' = Uniform(OneChunk, 0)
    /\ src_pos' = WZero /\ dest_pos' = WZero
    /\ dest_open' = FALSE
    /\ status' = 0 /\ exit_at' = "running"
    /\ report' = <<>>
    /\ io' = [IoZero EXCEPT !.prior_faults = io.faults]
    /\ devtab' = NotCalled
    /\ reply' = 0
    /\ UNCHANGED <<platform, cli, discovery_ok, oslist, image, disk, device_name,
                   devices>>

Next ==
    \/ main \/ usage \/ ask_device \/ ask_reply
    \/ open_source \/ disk_open \/ setup
    \/ w_read \/ disk_write \/ w_flush \/ w_final
    \/ v_read \/ disk_read \/ v_compare
    \/ close \/ main_end
    \/ interrupted
    \/ verify_again

Spec == Init /\ [][Next]_vars

SpecLarge == InitLarge /\ [][Next]_vars

\* The statements of write_image and the return to main: a process that is
\* in write_image goes on to its next statement.
JobStep ==
    \/ open_source \/ disk_open \/ setup
    \/ w_read \/ disk_write \/ w_flush \/ w_final
    \/ v_read \/ disk_read \/ v_compare
    \/ close \/ main_end

SpecFair == Init /\ [][Next]_vars /\ WF_vars(JobStep)

SpecHuge == InitHuge /\ [][Next]_vars

(***************************************************************************)
(* The comparison of one chunk, far into a verify job.  A verify job of an *)
(* image of 4 GiB and more is not followed chunk by chunk; the state it is *)
(* in at the comparison of chunk k is written down instead: a job on       *)
(* Linux, without faults, of an image of nb bytes (all 1) against a card   *)
(* that holds it, every comparison before having found the buffers equal.  *)
(***************************************************************************)
\* The chunks j < k whose length n was nb.r and not sizeof(buf): those where
\* nbytes - count has its low 32 bits below sizeof(buf), (nb.q - j) % 2^17 = 0.
ShortBefore(nb, k) ==
    LET a == nb.q % ChunksPer4G
    IN  IF k <= a THEN 0 ELSE (k - 1 - a) \div ChunksPer4G + 1

\* The file offset after the reads of chunks 0..k: the sum of their n.
PosAfter(nb, k) ==
    WSub(W(k + 1, 0), WOf(ShortBefore(nb, k + 1) * (BufSize - nb.r)))

Comparing(nb, k) ==
    /\ platform = "linux" /\ cli = "run_d" /\ discovery_ok = TRUE
    /\ oslist = NoDevices
    /\ image = Uniform(nb, 1)
    /\ disk = GoodCard(Uniform(nb, 1)) /\ disk0 = disk
    /\ run = 1
    /\ pc = "v_compare"
    /\ verify_only = 1 /\ device_name = "sdb"
    /\ devices = <<>> /\ devtab = NotCalled /\ reply = 0
    /\ nbytes = nb /\ count = W(k, 0) /\ n = ChunkLen(nb, W(k, 0))
    /\ progress_step = ProgressStep(nb) /\ progress_len = ProgressLen(nb)
    /\ progress_count = k
    /\ buf = Uniform(OneChunk, 1) /\ buf2 = Uniform(OneChunk, 1)
    /\ src_pos = PosAfter(nb, k) /\ dest_pos = PosAfter(nb, k)
    /\ dest_open = TRUE
    /\ status = 0 /\ exit_at = "running"
    /\ report = <<>>
    /\ io = [IoZero EXCEPT !.src_reads = k + 1, !.dev_reads = k + 1,
                           !.marks = k \div ProgressStep(nb)]

\* Sizes of images and numbers of chunks, around the multiples of 2^17 chunks
\* (4 GiB).
RenderSizes == {W(3, 5), W(ChunksPer4G + 3, 5), W(2^20 + 1, 0), W(2^29, 7)}

RenderChunks ==
    {2, 3, 2^12, 2^16, 2^17 - 1, 2^17, 2^17 + 1, 2^17 + 2, 2^17 + 3, 2^18,
     2^18 + 3, 2^20, 2^24 + 2^17, 2^28 + 1, 2^29 - 1, 2^29}

InitRender ==
    \E nb \in RenderSizes : \E k \in RenderChunks :
        WLt(W(k, 0), nb) /\ Comparing(nb, k)

SpecRender == InitRender /\ [][v_compare]_vars

(***************************************************************************)
(* Properties.                                                             *)
(***************************************************************************)
Exited == pc = "exited"
Done == Exited /\ exit_at = "done"
IoFailSites == {"read_source", "disk_write", "disk_read"}
FailSites == {"open_source", "disk_open", "mismatch"} \cup IoFailSites
Failed == Exited /\ exit_at \in FailSites
CancelSites == {"interrupted", "ask_eof", "ask_cancel"}
WriteMode == verify_only = 0
VerifyMode == verify_only = 1
NoFault == io.faults = 0 /\ io.prior_faults = 0

IsPowerOfTwo(x) == \E k \in 0..30 : x = 2^k
CeilDiv(a, b) == (a + b - 1) \div b

\* ceil(totalBytes / chunkSize) of the image file.
ImageChunks == Size(image).q + (IF Size(image).r > 0 THEN 1 ELSE 0)

\* C1: a write-mode job that reaches Done without an I/O fault has written
\* exactly totalBytes bytes, from offset 0 upward: the card's bytes
\* [0, totalBytes) are the image's, and the card is untouched from totalBytes on.
C1_VerbatimCopy ==
    (Done /\ WriteMode /\ NoFault) =>
        /\ dest_pos = Size(image)
        /\ Bytes(disk, WZero, Size(image)) = image
        /\ Drop(disk, Size(image)) = Drop(disk0, Size(image))

\* C2: a verify run that follows a fault-free write of the same image to the
\* card ends Done (when it is neither interrupted nor kept from opening its
\* files) and reports no mismatch.
C2_RoundTrip ==
    (run = 2 /\ VerifyMode /\ NoFault /\ Exited
         /\ exit_at \notin {"interrupted", "open_source", "disk_open"}) =>
        (exit_at = "done" /\ report = <<>>)

\* The offset of the first byte in which the card, as the process found it,
\* differs from the image (-1: none).
K == FirstDiff(image, disk0, Size(image))

\* C3: when the card differs from the image at the single offset K, a verify
\* run that is not cut short ends with a mismatch report of offset K, of the
\* image's byte at K as expected and the card's byte at K as actual, made
\* while chunk K / 32768 is processed.
C3_MismatchPrecision ==
    (run = 1 /\ VerifyMode /\ NoFault /\ K # -1 /\ Exited
         /\ exit_at \in {"done", "mismatch"}) =>
        /\ exit_at = "mismatch"
        /\ Len(report) = 1
        /\ report[1].offset = WOf(K)
        /\ report[1].expected = ByteAt(image, WOf(K))
        /\ report[1].actual = ByteAt(disk, WOf(K))
        /\ count = W(K \div BufSize, 0)

\* C4: the step write_image computes is a power of two and
\* ceil(ceil(totalBytes / 32768) / step) < 64.
C4_StepBound ==
    (progress_step # 0) =>
        /\ IsPowerOfTwo(progress_step)
        /\ CeilDiv(ImageChunks, progress_step) < 64

\* The writes after which the cadence asks for a flush, among the first w.
CadencePoints(w) == {k \in 1..w : k % progress_step = 0}

\* C5: a completed write-mode job has issued ceil(totalBytes / 32768) device
\* writes, a cadence flush right after the k-th write exactly for the
\* multiples k of step (floor(totalChunks / step) of them), and one final
\* flush after the last write; for 10,485,760 bytes: 320 writes, step 8, 40
\* cadence flushes and the final one.  While the job runs, the cadence flushes issued
\* are those due after the writes so far, the one due next being issued in
\* state w_flush, and the final flush is not issued before the last write.
C5_WriteFlushTrace ==
    /\ (WriteMode /\ progress_step # 0 /\ (Done \/ ~Exited)) =>
           /\ io.flush_after =
                 CadencePoints(io.writes) \ (IF pc = "w_flush" THEN {io.writes} ELSE {})
           /\ io.flushes = Cardinality(io.flush_after)
           /\ (pc = "w_flush") => (io.writes % progress_step = 0)
           /\ io.final_flushes <= 1
           /\ (io.final_flushes = 1) => (io.writes = ImageChunks)
    /\ (Done /\ WriteMode) =>
           /\ io.writes = ImageChunks
           /\ io.flush_after = CadencePoints(ImageChunks)
           /\ io.flushes = ImageChunks \div progress_step
           /\ io.final_flushes = 1
           /\ (nbytes = W(320, 0)) =>
                  (io.writes = 320 /\ progress_step = 8 /\ io.flushes = 40)

C5_Witness ==
    Done /\ WriteMode /\ nbytes = W(320, 0) /\ io.flushes = 40 /\ io.final_flushes = 1

\* C6: the transfer length n of the chunk at offset count is
\* min(32768, totalBytes - count), whatever the size of the image.
C6_ChunkLength ==
    (pc \in {"w_write", "w_flush", "v_dread", "v_compare"}) =>
        (n = WInt(WMin(OneChunk, WSub(nbytes, count))))

\* C7: when disk_open has succeeded, disk_close is called exactly once before
\* the process ends, whether in Done, in an error or by an interrupt.
C7_ClosedOnEveryExit == (Exited /\ dest_open) => (io.closes = 1)

\* C8: a read or write that transfers fewer bytes than asked ends the job in
\* Failed at that call: no later transfer or flush, and no Done.
C8_ShortTransferFatal == (io.faults > 0) => (Exited /\ exit_at \in IoFailSites)

C10_CancelStatusZero ==
    (Exited /\ exit_at \in CancelSites \cup {"usage", "version"}) => status = 0

\* C11: a verify-only job issues no device write and no flush, in any state
\* (Failed included), and leaves the card's contents as it found them; its
\* marks come on the cadence of the write mode, one after every step-th chunk
\* compared.
C11_VerifyOnlyReads ==
    VerifyMode =>
        /\ io.writes = 0 /\ io.flushes = 0 /\ io.final_flushes = 0
        /\ pc \notin {"w_read", "w_write", "w_flush", "w_final"}
        /\ disk = disk0
        /\ (progress_step # 0) =>
               /\ io.marks = progress_count \div progress_step
               /\ count = W(progress_count, 0)

C11_Witness ==
    /\ VerifyMode /\ Failed /\ exit_at = "mismatch"
    /\ nbytes = W(320, 0) /\ io.dev_reads = 17 /\ io.marks = 2

\* C12: with an image of 0 bytes a write job reads no chunk and writes none,
\* emits no mark, issues the final flush and no other, and ends Done unless
\* it is interrupted or a file is not opened; a verify job reads nothing from
\* the card, flushes nothing and ends Done likewise.
C12_ZeroLength ==
    (Size(image) = WZero) =>
        /\ io.src_reads = 0 /\ io.writes = 0 /\ io.dev_reads = 0
        /\ io.marks = 0 /\ io.flushes = 0
        /\ io.final_flushes <= 1
        /\ VerifyMode => io.final_flushes = 0
        /\ (WriteMode /\ pc \in {"close", "returned"}) => io.final_flushes = 1
        /\ Exited =>
               \/ Done /\ io.final_flushes = (IF WriteMode THEN 1 ELSE 0)
               \/ exit_at \in {"interrupted", "open_source", "disk_open"}

\* A verify job of the empty image ends Done after the write job did.
C12_Witness ==
    /\ Size(image) = WZero /\ run = 2 /\ VerifyMode /\ Done
    /\ io = [IoZero EXCEPT !.closes = 1]

\* C13: in every state of every job, whatever the size of the image, fewer
\* than 64 marks have been emitted; a job that ends Done has emitted
\* floor(totalChunks / step) marks.
C13_BoundedMarks ==
    /\ io.marks < MarkLimit
    /\ Done => io.marks = ImageChunks \div progress_step

\* The entries the catalogue is to hold: whole disks, marked removable, of
\* nonzero capacity.
Wanted(d) == d.whole /\ d.removable /\ d.size # 0

Paths(os) == [i \in 1..Len(os) |-> os[i].path]

\* C14: get_devices returns exactly the entries of the operating system's
\* list that are whole disks, marked removable and of nonzero capacity, in
\* the order of the list (of a fixed disk, an empty reader and a card: the
\* card alone).
C14_EnumerationFilter ==
    (devtab.end = "return" /\ discovery_ok) =>
        devtab.tab = Paths(SelectSeq(oslist, Wanted))

\* C15: when the discovery cannot be set up (udev, IOKit), get_devices
\* returns to its caller, with an empty table that holds its terminator, and
\* does not end the process.
C15_EnumerationUnavailable ==
    (devtab.end # "none" /\ ~discovery_ok /\ platform \in {"linux", "apple"}) =>
        /\ devtab.end = "return"
        /\ devtab.tab = <<>> /\ devtab.terminated
        /\ exit_at # "udev"

\* C19: on every platform and every return of get_devices(devtab, maxdev), at
\* most maxdev entries are stored and the terminator is stored at index
\* ndev <= maxdev, however many devices match.
C19_TableBounds ==
    (devtab.end = "return") =>
        /\ Len(devtab.tab) <= MAXDEV
        /\ devtab.terminated

\* C16: once the comparison of a chunk i finds a difference, one mismatch
\* report is produced, for the lowest index at which the compared buffers
\* differ, the job is Failed (and so never Done), and no chunk beyond i has
\* been read from the image or from the card; a job that ends on a mismatch
\* has produced its report.
C16_FailFast ==
    /\ (Exited /\ exit_at = "mismatch") => report # <<>>
    /\ (report # <<>>) =>
           /\ Len(report) = 1
           /\ Failed /\ exit_at = "mismatch"
           /\ io.src_reads = count.q + 1 /\ io.dev_reads = count.q + 1
           /\ WLe(count, report[1].offset)
           /\ LET j == WSub(report[1].offset, count) IN
                  /\ WLt(j, WOf(n))
                  /\ Bytes(buf, WZero, j) = Bytes(buf2, WZero, j)
                  /\ ByteAt(buf, j) # ByteAt(buf2, j)
                  /\ report[1].expected = ByteAt(buf, j)
                  /\ report[1].actual = ByteAt(buf2, j)

\* The second of three chunks differs, in a byte that is not its first.
C16_Witness ==
    /\ Failed /\ exit_at = "mismatch" /\ report # <<>>
    /\ count = W(1, 0) /\ nbytes.q = 2 /\ nbytes.r > 0
    /\ WLt(count, report[1].offset)

\* The value a text of hexadecimal digits denotes.
HexValue(c) == CHOOSE d \in 0..15 : HexChars[d + 1] = c

WTimes16(a) == W(a.q * 16 + (a.r * 16) \div BufSize, (a.r * 16) % BufSize)

RECURSIVE ParseHex(_, _)
ParseHex(t, acc) ==
    IF t = <<>> THEN acc
    ELSE ParseHex(Tail(t), WAdd(WTimes16(acc), W(0, HexValue(Head(t)))))

\* C17: the offset print_mismatch prints is, when the high 32 bits are 0, the
\* low 32 bits in hexadecimal without leading zeros, and otherwise the high
\* 32 bits in hexadecimal followed by the low 32 bits in 8 digits; the digits
\* printed denote the offset (0x100000005 is printed 1 00000005).
C17_OffsetRendering ==
    (report # <<>>) =>
        LET x == report[1].offset
            t == report[1].text
        IN  /\ ParseHex(t, WZero) = x
            /\ Len(t) = 1 \/ t[1] # "0"
            /\ (x.q < ChunksPer4G) => Len(t) <= 8
            /\ (x.q >= ChunksPer4G) =>
                   /\ Len(t) > 8
                   /\ ParseHex(SubSeq(t, 1, Len(t) - 8), WZero) = HighHalf(x)
                   /\ ParseHex(SubSeq(t, Len(t) - 7, Len(t)), WZero) = LowHalf(x)
            /\ (x = W(ChunksPer4G, 5)) =>
                   t = <<"1", "0", "0", "0", "0", "0", "0", "0", "5">>

C17_Witness ==
    /\ report # <<>>
    /\ report[1].offset = W(ChunksPer4G, 5)
    /\ report[1].text = <<"1", "0", "0", "0", "0", "0", "0", "0", "5">>

\* The number of the write after which the most recent flush was issued (0:
\* no flush yet), and the writes issued since.
LastFlushed ==
    IF io.final_flushes > 0 THEN io.writes
    ELSE IF io.flush_after = {} THEN 0
    ELSE CHOOSE k \in io.flush_after : \A j \in io.flush_after : j <= k

Unflushed == io.writes - LastFlushed

\* C18: in every state of a write job at most step chunks have been written
\* since the most recent flush (or the start of the job), fewer than step
\* wherever an iteration of the loop has ended, and none when the job is Done.
C18_BoundedExposure ==
    (WriteMode /\ progress_step # 0) =>
        /\ Unflushed <= progress_step
        /\ (pc \in {"w_read", "w_write", "w_final"}) => Unflushed < progress_step
        /\ (pc \in {"close", "returned"} \/ Done) => Unflushed = 0

\* Eight chunks of the 320 are on their way to the card, the flush is next.
C18_Witness ==
    /\ WriteMode /\ pc = "w_flush" /\ progress_step = 8
    /\ io.writes = 16 /\ Unflushed = 8

\* The process is in write_image, or back in main after it.
InJob ==
    pc \in {"write_image", "disk_open", "setup", "w_read", "w_write", "w_flush",
            "w_final", "v_read", "v_dread", "v_compare", "close", "returned"}

\* The statements a process has at most before it: three for every chunk
\* not yet done, and those around the loop.
Rank ==
    LET left == 3 * (ImageChunks - count.q)
    IN  CASE pc = "write_image" -> 3 * ImageChunks + 9
          [] pc = "disk_open" -> 3 * ImageChunks + 8
          [] pc = "setup" -> 3 * ImageChunks + 7
          [] pc \in {"w_read", "v_read"} -> left + 3
          [] pc \in {"w_write", "v_dread"} -> left + 2
          [] pc \in {"w_flush", "v_compare"} -> left + 1
          [] pc = "w_final" -> 3
          [] pc = "close" -> 2
          [] pc = "returned" -> 1
          [] OTHER -> 0

\* C20: a job ends, in Done or in Failed: a process in write_image always has
\* a next statement and every statement brings it nearer the end, the search
\* for the step ending at a power of two and the loops taking at most
\* ceil(totalBytes / 32768) iterations; when the process leaves the job it is
\* in Done or in Failed (or was interrupted), which exclude each other and,
\* once reached, stay, with no read, write, flush or close after them in that
\* process; the final flush occurs in write mode only.
C20_Termination ==
    /\ [](InJob => ENABLED JobStep)
    /\ [][JobStep => (Rank' < Rank /\ Rank' >= 0)]_vars
    /\ [](io.src_reads <= ImageChunks /\ count.q <= ImageChunks)
    /\ [][setup => IsPowerOfTwo(progress_step')]_vars
    /\ [][(InJob /\ Exited') =>
             (Done' \/ Failed' \/ exit_at' = "interrupted")]_vars
    /\ [](~(Done /\ Failed))
    /\ []((pc = "w_final" \/ io.final_flushes > 0) => WriteMode)
    /\ [][(Done \/ Failed) =>
             \/ run' = run + 1
             \/ io' = io /\ disk' = disk /\ pc' = pc /\ exit_at' = exit_at]_vars

\* A write job that failed at a device write in its second chunk.
C20_Witness ==
    /\ Failed /\ exit_at = "disk_write" /\ WriteMode
    /\ io.writes = 2 /\ io.src_reads = 2 /\ ImageChunks = 3

\* ask_device has returned a name to main.
Selected == cli = "run" /\ device_name # ""

\* The paths of the entries that get_devices stored in this process.
Catalogue == {devtab.tab[i] : i \in 1..Len(devtab.tab)}

\* The digits '1' .. '9'.
Digits == 49..57

\* C21: without -d, the name that ask_device returns, and that disk_open is
\* given, is the path of an entry that get_devices stored in this process,
\* chosen by a reply whose first character is a digit in 1..ndev, ndev the
\* number of the entries (so the index lies in [0, ndev), and there is an
\* entry); while the prompt is repeated the reply read last was no such digit
\* (nor a cancel); with no entry the prompt is never reached.
C21_CataloguedSelection ==
    /\ Selected =>
          /\ device_name \in Catalogue
          /\ reply \in Digits
          /\ reply - 49 >= 0 /\ reply - 49 < Len(devtab.tab)
          /\ device_name = devtab.tab[reply - 49 + 1]
    /\ (pc = "ask_reply" /\ reply # 0) =>
          /\ ~(reply \in Digits /\ reply - 49 < Len(devtab.tab))
          /\ reply \notin {-1, 81, 113}
          /\ device_name = ""
    /\ (pc = "ask_reply" \/ Selected) => devtab.tab # <<>>

====
